---- MODULE Spec2Model ----
(***************************************************************************)
(* Model of the BCV dollar-rate bot: the ingestion pipeline of rates.py    *)
(* (get_sheet_urls, get_rate_chunks, store_rates), the Rates table of      *)
(* database.py, and the polling loop, broadcast and start-up retry of      *)
(* main.py.                                                                *)
(*                                                                         *)
(* store_rates is modelled against the connection type it declares         *)
(* (psycopg.AsyncConnection): executemany runs its statements inside the   *)
(* connection's open transaction, commit() makes them durable, and a       *)
(* connection that is dropped loses what it had not committed.             *)
(*                                                                         *)
(* Dates are day numbers; day d falls on weekday d % 7 with 0 = Monday, as *)
(* datetime.weekday() counts.  A rate value is an integer number of        *)
(* 1/10000 bolivars.                                                       *)
(*                                                                         *)
(* Spec is the whole process against a site that changes between cycles.   *)
(* The other specifications study one part on inputs Spec does not reach:  *)
(* BroadcastSpec (tables beyond the limit of 15), ConcSpec (the /tasa      *)
(* handler beside update_timer), BatchSpec (workbooks that repeat dates),  *)
(* ListingSpec (listings of several pages), ParseSpec (get_sheet_rate on   *)
(* hosts of several time zones) and QuerySpec (command_rate on tables with *)
(* gaps).                                                                  *)
(***************************************************************************)
EXTENDS Integers, Sequences, FiniteSets, TLC

VARIABLES
    site,       \* the bank's listing: workbooks, newest first; a workbook is the sequence of its worksheets' (date, value)
    store,      \* committed rows of table Rates
    pending,    \* rows inserted on db_conn and not yet committed
    pc,         \* position of the process / of update_timer
    attempt,    \* n of the __main__ retry loop (0 once main() is past start-up)
    error,      \* kind of the exception that is propagating or ended the process
    page,       \* get_sheet_urls: listing page being fetched (next_url)
    urls,       \* get_sheet_urls: urls / get_rate_chunks: sheet_urls (positions in the listing)
    idx,        \* get_rate_chunks: position of sheet_url in sheet_urls
    chunk,      \* the generator yielded for the current workbook
    row,        \* number of parameter sets executemany has consumed from chunk
    rowcount,   \* acur.rowcount
    new_rows,   \* store_rates: new_rows / update_timer: new_rates
    data,       \* broadcast_update: cur.fetchall()
    bi,         \* broadcast_update: number of rows of reversed(data) handled
    sent,       \* messages bot.send_message delivered in this cycle
    now,        \* datetime.now() read by get_next_check_delay
    delay,      \* value handed to asyncio.sleep
    fetched,    \* history: positions of sheet_urls fetched in this cycle, in order
    counts,     \* history: count of every batch committed in this cycle
    inserted,   \* history: rows this cycle committed
    tz,         \* UTC offset, in hours, of the host's local time zone
    sheet,      \* get_sheet_rate: the worksheet being read (date cell, value cell)
    parsed,     \* get_sheet_rate: the (rate_date, value) it returned
    reply       \* command_rate: the answer to the last /tasa command

vars == <<site, store, pending, pc, attempt, error, page, urls, idx, chunk, row,
          rowcount, new_rows, data, bi, sent, now, delay, fetched, counts, inserted,
          tz, sheet, parsed, reply>>

----------------------------------------------------------------------------
(* Bounds of the environment *)

MaxDate == 5        \* the bank publishes rates for days 1..MaxDate
MaxRows == 3        \* worksheets per workbook
MaxSheets == 3      \* workbooks on the listing
PageSize == 2       \* file links per listing page
MaxStored == 17     \* rows in the table when broadcast_update is studied alone

Variants == {1, 2}                  \* a workbook may be re-published with revised values
\* Times of day at which the clock is read: seconds since midnight and microseconds
TimesOfDay ==
    {[sec |-> 0, us |-> 0], [sec |-> 46799, us |-> 999999],
     [sec |-> 46800, us |-> 0], [sec |-> 86399, us |-> 999999]}
Days == 0 .. 6

(* Program constants *)

VE_OFFSET == -4                     \* VE_TZ = timezone(-timedelta(hours=4))
BROADCAST_LIMIT == 15
SHORT_DELAY == 15 * 60
CHECK_HOUR == 13
MAX_ATTEMPTS == 10
RETRY_PAUSE == 10

Min(a, b) == IF a < b THEN a ELSE b

----------------------------------------------------------------------------
(* The environment: what the bank serves *)

\* The published value for day d in revision v (not monotonic in d)
Rate(d, v) == 100 + 10 * ((d * d) % 7) + v

Rec(d, v) == [effective_at |-> d, value |-> Rate(d, v)]

\* A workbook with one worksheet per day lo..hi
Workbook(lo, hi, v) == [i \in 1 .. (hi - lo + 1) |-> Rec(lo + i - 1, v)]

NewestDate == site[1][Len(site[1])].effective_at

Instants(rows) == {r.effective_at : r \in rows}

SeqRange(s) == {s[i] : i \in 1 .. Len(s)}

----------------------------------------------------------------------------
(* Table Rates *)

\* INSERT ... ON CONFLICT DO UPDATE: the incoming row replaces the stored one
InsertOrReplace(tbl, r) ==
    {s \in tbl : s.effective_at # r.effective_at} \cup {r}

\* effective_at DATETIME UNIQUE + INSERT ... ON CONFLICT DO NOTHING
InsertOrIgnore(tbl, r) ==
    IF \E s \in tbl : s.effective_at = r.effective_at THEN tbl ELSE tbl \cup {r}

RECURSIVE OrderDesc(_)
OrderDesc(tbl) ==
    IF tbl = {} THEN <<>>
    ELSE LET m == CHOOSE r \in tbl : \A q \in tbl : q.effective_at <= r.effective_at
         IN  <<m>> \o OrderDesc(tbl \ {m})

\* value - LAG(value, 1) OVER (ORDER BY effective_at DESC): the window in the
\* order of the result, NULL for the newest row
WithChangeFromNewer(tbl, r) ==
    LET after == {q \in tbl : q.effective_at > r.effective_at}
    IN  IF after = {}
        THEN [effective_at |-> r.effective_at, value |-> r.value, change |-> 0, change_null |-> TRUE]
        ELSE LET p == CHOOSE q \in after : \A o \in after : q.effective_at <= o.effective_at
             IN  [effective_at |-> r.effective_at, value |-> r.value,
                  change |-> r.value - p.value, change_null |-> FALSE]

\* value - LAG(value, 1) OVER (ORDER BY effective_at): NULL for the first row
WithChange(tbl, r) ==
    LET before == {q \in tbl : q.effective_at < r.effective_at}
    IN  IF before = {}
        THEN [effective_at |-> r.effective_at, value |-> r.value, change |-> 0, change_null |-> TRUE]
        ELSE LET p == CHOOSE q \in before : \A o \in before : o.effective_at <= q.effective_at
             IN  [effective_at |-> r.effective_at, value |-> r.value,
                  change |-> r.value - p.value, change_null |-> FALSE]

\* ORDER BY effective_at (ascending) LIMIT limit: the oldest rows
OldestN(tbl, limit) ==
    LET all == OrderDesc(tbl)
        n == Min(limit, Len(all))
    IN  [i \in 1 .. n |-> WithChange(tbl, all[Len(all) - i + 1])]

\* SELECT ... ORDER BY effective_at DESC LIMIT limit
RecentN(tbl, limit) ==
    LET all == OrderDesc(tbl)
        n == Min(limit, Len(all))
    IN  [i \in 1 .. n |-> WithChange(tbl, all[i])]

----------------------------------------------------------------------------
(* get_next_check_delay *)

Weekday(day) == day % 7

\* next_day without the weekend skip
NextCheckNoSkip(n) == [day |-> n.day + 1, sec |-> CHECK_HOUR * 3600, us |-> n.us]

\* next_day, moved past the weekend, with hour=13, minute=0, second=0 replaced
NextCheck(n) ==
    LET next_day == n.day + 1
        skipped == IF Weekday(next_day) >= 5
                   THEN next_day + (7 - Weekday(next_day))
                   ELSE next_day
    IN  [day |-> skipped, sec |-> CHECK_HOUR * 3600, us |-> n.us]

\* now - next_check
TimeDeltaReversed(a, b) ==
    LET s == (b.day - a.day) * 86400 + (b.sec - a.sec)
        u == b.us - a.us
    IN  IF u < 0 THEN [sec |-> s - 1, us |-> u + 1000000] ELSE [sec |-> s, us |-> u]

\* a - b as a timedelta, in seconds and microseconds
TimeDelta(a, b) ==
    LET s == (a.day - b.day) * 86400 + (a.sec - b.sec)
        u == a.us - b.us
    IN  IF u < 0 THEN [sec |-> s - 1, us |-> u + 1000000] ELSE [sec |-> s, us |-> u]

\* the short delay on any day of the week
DelayIgnoringWeekday(short_term, n) ==
    IF short_term
    THEN [sec |-> SHORT_DELAY, us |-> 0]
    ELSE TimeDelta(NextCheck(n), n)

get_next_check_delay(short_term, n) ==
    IF short_term /\ Weekday(n.day) < 5
    THEN [sec |-> SHORT_DELAY, us |-> 0]
    ELSE TimeDelta(NextCheck(n), n)

----------------------------------------------------------------------------
(* Initial state: a fresh data directory, the process just started *)

NoTime == [day |-> 0, sec |-> 0, us |-> 0]
NoDelay == [sec |-> 0, us |-> 0]
NoSheet == [date |-> 0, raw |-> [coef |-> 0, exp |-> 0]]
NoRate == [rate_date |-> [utc |-> 0, offset |-> 0], value |-> [coef |-> 0, exp |-> 0]]
NoReply == [kind |-> "none", target |-> NoTime, rate |-> <<>>]

Init ==
    /\ site \in {<<Workbook(1, 1, v)>> : v \in Variants}
    /\ store = {}
    /\ pending = {}
    /\ pc = "main"
    /\ attempt = 1
    /\ error = "none"
    /\ page = 0
    /\ urls = <<>>
    /\ idx = 0
    /\ chunk = <<>>
    /\ row = 0
    /\ rowcount = 0
    /\ new_rows = 0
    /\ data = <<>>
    /\ bi = 0
    /\ sent = <<>>
    /\ now = NoTime
    /\ delay = NoDelay
    /\ fetched = <<>>
    /\ counts = <<>>
    /\ inserted = {}
    /\ tz = VE_OFFSET
    /\ sheet = NoSheet
    /\ parsed = NoRate
    /\ reply = NoReply

----------------------------------------------------------------------------
(* The bank publishes; it does so between two cycles of the bot *)

\* A new workbook for the next day is put on top of the listing
PublishWorkbook ==
    /\ pc = "cycle"
    /\ NewestDate < MaxDate
    /\ Len(site) < MaxSheets
    /\ \E v \in Variants :
          site' = <<Workbook(NewestDate + 1, NewestDate + 1, v)>> \o site
    /\ UNCHANGED <<store, pending, pc, attempt, error, page, urls, idx, chunk, row,
                   rowcount, new_rows, data, bi, sent, now, delay, fetched, counts, inserted>>
    /\ UNCHANGED <<tz, sheet, parsed, reply>>

\* The newest workbook is re-published with a worksheet for the next day
PublishWorksheet ==
    /\ pc = "cycle"
    /\ NewestDate < MaxDate
    /\ Len(site[1]) < MaxRows
    /\ \E v \in Variants :
          site' = [site EXCEPT ![1] = Workbook(site[1][1].effective_at, NewestDate + 1, v)]
    /\ UNCHANGED <<store, pending, pc, attempt, error, page, urls, idx, chunk, row,
                   rowcount, new_rows, data, bi, sent, now, delay, fetched, counts, inserted>>
    /\ UNCHANGED <<tz, sheet, parsed, reply>>

----------------------------------------------------------------------------
(* __main__ and main() *)

\* An exception leaves the task: nothing in update_timer or main() catches it
Raise(kind) ==
    /\ pc' = "raised"
    /\ error' = kind
    /\ UNCHANGED <<site, store, pending, attempt, page, urls, idx, chunk, row, rowcount,
                   new_rows, data, bi, sent, now, delay, fetched, counts, inserted>>
    /\ UNCHANGED <<tz, sheet, parsed, reply>>

\* the retry loop with range(1, 12) and n < 11
MainConnectFailOneMore ==
    /\ pc = "main"
    /\ IF attempt < MAX_ATTEMPTS + 1
       THEN /\ pc' = "pause"
            /\ delay' = [sec |-> RETRY_PAUSE, us |-> 0]
            /\ UNCHANGED <<attempt, error>>
       ELSE /\ pc' = "exited"
            /\ error' = "telegram"
            /\ UNCHANGED <<attempt, delay>>
    /\ UNCHANGED <<site, store, pending, page, urls, idx, chunk, row, rowcount,
                   new_rows, data, bi, sent, now, fetched, counts, inserted>>
    /\ UNCHANGED <<tz, sheet, parsed, reply>>

\* bot.set_my_commands raises TelegramNetworkError and main() with it: for
\* n < 10 the loop of __main__ calls time.sleep(10), for n = 10 it re-raises
MainConnectFail ==
    /\ pc = "main"
    /\ IF attempt < MAX_ATTEMPTS
       THEN /\ pc' = "pause"
            /\ delay' = [sec |-> RETRY_PAUSE, us |-> 0]
            /\ UNCHANGED <<attempt, error>>
       ELSE /\ pc' = "exited"
            /\ error' = "telegram"
            /\ UNCHANGED <<attempt, delay>>
    /\ UNCHANGED <<site, store, pending, page, urls, idx, chunk, row, rowcount,
                   new_rows, data, bi, sent, now, fetched, counts, inserted>>
    /\ UNCHANGED <<tz, sheet, parsed, reply>>

\* time.sleep(10) returns: the next n of the loop, asyncio.run(main()) again
RetryPause ==
    /\ pc = "pause"
    /\ pc' = "main"
    /\ attempt' = attempt + 1
    /\ delay' = NoDelay
    /\ UNCHANGED <<site, store, pending, error, page, urls, idx, chunk, row, rowcount,
                   new_rows, data, bi, sent, now, fetched, counts, inserted>>
    /\ UNCHANGED <<tz, sheet, parsed, reply>>

\* main() reaches the TaskGroup and update_timer starts
MainStart ==
    /\ pc = "main"
    /\ pc' = "cycle"
    /\ attempt' = 0
    /\ UNCHANGED <<site, store, pending, error, page, urls, idx, chunk, row, rowcount,
                   new_rows, data, bi, sent, now, delay, fetched, counts, inserted>>
    /\ UNCHANGED <<tz, sheet, parsed, reply>>

\* The TaskGroup re-raises as an ExceptionGroup, which the retry loop does not
\* catch: the process ends and its connection is dropped with what it had not
\* committed.
TaskGroupExit ==
    /\ pc = "raised"
    /\ pc' = "exited"
    /\ pending' = {}
    /\ page' = 0
    /\ urls' = <<>>
    /\ idx' = 0
    /\ chunk' = <<>>
    /\ row' = 0
    /\ rowcount' = 0
    /\ data' = <<>>
    /\ bi' = 0
    /\ UNCHANGED <<site, store, attempt, error, new_rows, sent, now, delay, fetched, counts, inserted>>
    /\ UNCHANGED <<tz, sheet, parsed, reply>>

\* The operator starts the program again on the same data directory
Launch ==
    /\ pc = "exited"
    /\ pc' = "main"
    /\ attempt' = 1
    /\ error' = "none"
    /\ sent' = <<>>
    /\ fetched' = <<>>
    /\ counts' = <<>>
    /\ inserted' = {}
    /\ new_rows' = 0
    /\ UNCHANGED <<site, store, pending, page, urls, idx, chunk, row, rowcount,
                   data, bi, now, delay>>
    /\ UNCHANGED <<tz, sheet, parsed, reply>>

----------------------------------------------------------------------------
(* store_rates, get_rate_chunks, get_sheet_urls *)

\* Positions of the file links on listing page p
PageLinks(p) ==
    [i \in 1 .. (Min(p * PageSize, Len(site)) - (p - 1) * PageSize) |-> (p - 1) * PageSize + i]

\* a "next" control on every page that is full
HasNextOnFullPage(p) == p * PageSize <= Len(site)

\* The page has a "next" control
HasNext(p) == p * PageSize < Len(site)

\* no break: every listed workbook is fetched
NeverStop(count) == FALSE

\* if count == 0: break
StopEarly(count) == count = 0

\* an autocommit connection: every INSERT is durable at once
Autocommit(committed, view) == view

\* What is committed while executemany runs: nothing before db_conn.commit()
CommittedBy(committed, view) == committed

\* a count of the statements run, whether or not they inserted
RowsAttempted(view, after) == 1

\* What one INSERT ... ON CONFLICT DO NOTHING adds to acur.rowcount: the rows
\* it inserted
RowsAffected(view, after) == Cardinality(after) - Cardinality(view)

\* update_timer calls store_rates: new_rows = 0, the cursor is opened and
\* get_rate_chunks starts with get_sheet_urls at RATES_URL
StoreRatesBegin ==
    /\ pc = "cycle"
    /\ pc' = "discover"
    /\ page' = 1
    /\ urls' = <<>>
    /\ new_rows' = 0
    /\ UNCHANGED <<site, store, pending, attempt, error, idx, chunk, row, rowcount,
                   data, bi, sent, now, delay, fetched, counts, inserted>>
    /\ UNCHANGED <<tz, sheet, parsed, reply>>

\* One pass of the while loop of get_sheet_urls; after the last page the for
\* loop of get_rate_chunks starts
DiscoverPage ==
    /\ pc = "discover"
    /\ urls' = urls \o PageLinks(page)
    /\ IF HasNext(page)
       THEN /\ page' = page + 1
            /\ UNCHANGED <<pc, idx>>
       ELSE /\ page' = 0
            /\ idx' = IF urls' = <<>> THEN 0 ELSE 1
            /\ pc' = IF urls' = <<>> THEN "returned" ELSE "fetch"
    /\ UNCHANGED <<site, store, pending, attempt, error, chunk, row, rowcount, new_rows,
                   data, bi, sent, now, delay, fetched, counts, inserted>>
    /\ UNCHANGED <<tz, sheet, parsed, reply>>

\* The listing page cannot be fetched or has no main block / pagination
DiscoverFail ==
    /\ pc = "discover"
    /\ \E kind \in {"transport", "discovery"} : Raise(kind)

\* a cursor whose rowcount is not reset by the next executemany
FetchSheetKeepsCount ==
    /\ pc = "fetch"
    /\ chunk' = site[urls[idx]]
    /\ fetched' = Append(fetched, urls[idx])
    /\ row' = 0
    /\ pc' = IF chunk' = <<>> THEN "commit" ELSE "executemany"
    /\ UNCHANGED <<site, store, pending, attempt, error, page, urls, idx, new_rows, rowcount,
                   data, bi, sent, now, delay, counts, inserted>>
    /\ UNCHANGED <<tz, sheet, parsed, reply>>

\* session.get(sheet_url) and open_workbook: the chunk is yielded to store_rates
FetchSheet ==
    /\ pc = "fetch"
    /\ chunk' = site[urls[idx]]
    /\ fetched' = Append(fetched, urls[idx])
    /\ row' = 0
    /\ rowcount' = 0
    /\ pc' = IF chunk' = <<>> THEN "commit" ELSE "executemany"
    /\ UNCHANGED <<site, store, pending, attempt, error, page, urls, idx, new_rows,
                   data, bi, sent, now, delay, counts, inserted>>
    /\ UNCHANGED <<tz, sheet, parsed, reply>>

FetchFail ==
    /\ pc = "fetch"
    /\ Raise("transport")

\* executemany takes the next worksheet's (date, value) from the chunk and runs
\* INSERT ... ON CONFLICT DO NOTHING inside the open transaction
ExecuteRow ==
    /\ pc = "executemany"
    /\ LET view == store \cup pending
           after == InsertOrIgnore(view, chunk[row + 1])
       IN  /\ store' = CommittedBy(store, after)
           /\ pending' = after \ store'
           /\ rowcount' = rowcount + RowsAffected(view, after)
    /\ row' = row + 1
    /\ pc' = IF row' = Len(chunk) THEN "commit" ELSE "executemany"
    /\ UNCHANGED <<site, attempt, error, page, urls, idx, chunk, new_rows,
                   data, bi, sent, now, delay, fetched, counts, inserted>>
    /\ UNCHANGED <<tz, sheet, parsed, reply>>

\* get_sheet_rate raises on the next worksheet
ParseFail ==
    /\ pc = "executemany"
    /\ Raise("parse")

\* The INSERT or the COMMIT fails
StoreFail ==
    /\ pc \in {"executemany", "commit"}
    /\ Raise("store")

\* db_conn.commit(), count = acur.rowcount, new_rows += count, then the break
\* or the next pass of the for loop of get_rate_chunks
Commit ==
    /\ pc = "commit"
    /\ store' = store \cup pending
    /\ pending' = {}
    /\ inserted' = inserted \cup (store' \ store)
    /\ counts' = Append(counts, rowcount)
    /\ new_rows' = new_rows + rowcount
    /\ IF StopEarly(rowcount) \/ idx = Len(urls)
       THEN /\ pc' = "returned"
            /\ UNCHANGED idx
       ELSE /\ pc' = "fetch"
            /\ idx' = idx + 1
    /\ chunk' = <<>>
    /\ row' = 0
    /\ UNCHANGED <<site, attempt, error, page, urls, rowcount,
                   data, bi, sent, now, delay, fetched>>
    /\ UNCHANGED <<tz, sheet, parsed, reply>>

----------------------------------------------------------------------------
(* update_timer and broadcast_update *)

\* LIMIT ? with (new_rates,)
NoLimit(new_rates) == new_rates

\* LIMIT ? with (min(new_rates, 15),)
BroadcastLimit(new_rates) == Min(new_rates, BROADCAST_LIMIT)

\* change = change if change is not None else rate
Message(rate_data) ==
    [effective_at |-> rate_data.effective_at,
     value |-> rate_data.value,
     change |-> IF rate_data.change_null THEN rate_data.value ELSE rate_data.change]

\* while True without the else branch's sleep: no new rate, next pass at once
UpdateTimerNoSleep ==
    /\ pc = "returned"
    /\ pc' = IF new_rows > 0 THEN "broadcast" ELSE "cycle"
    /\ rowcount' = 0
    /\ urls' = <<>>
    /\ idx' = 0
    /\ UNCHANGED <<site, store, pending, attempt, error, page, chunk, row, new_rows,
                   data, bi, sent, now, delay, fetched, counts, inserted>>
    /\ UNCHANGED <<tz, sheet, parsed, reply>>

\* store_rates has returned: if new_rates > 0
UpdateTimerBranch ==
    /\ pc = "returned"
    /\ pc' = IF new_rows > 0 THEN "broadcast" ELSE "delay"
    /\ rowcount' = 0
    /\ urls' = <<>>
    /\ idx' = 0
    /\ UNCHANGED <<site, store, pending, attempt, error, page, chunk, row, new_rows,
                   data, bi, sent, now, delay, fetched, counts, inserted>>
    /\ UNCHANGED <<tz, sheet, parsed, reply>>

\* cur.execute(...) and cur.fetchall()
BroadcastQuery ==
    /\ pc = "broadcast"
    /\ data' = RecentN(store, BroadcastLimit(new_rows))
    /\ bi' = 0
    /\ pc' = IF data' = <<>> THEN "delay" ELSE "send"
    /\ UNCHANGED <<site, store, pending, attempt, error, page, urls, idx, chunk, row,
                   rowcount, new_rows, sent, now, delay, fetched, counts, inserted>>
    /\ UNCHANGED <<tz, sheet, parsed, reply>>

\* One pass of for rate_data in reversed(data): the message is sent
BroadcastSend ==
    /\ pc = "send"
    /\ sent' = Append(sent, Message(data[Len(data) - bi]))
    /\ bi' = bi + 1
    /\ pc' = IF bi' = Len(data) THEN "delay" ELSE "send"
    /\ UNCHANGED <<site, store, pending, attempt, error, page, urls, idx, chunk, row,
                   rowcount, new_rows, data, now, delay, fetched, counts, inserted>>
    /\ UNCHANGED <<tz, sheet, parsed, reply>>

\* bot.send_message raises
SendFail ==
    /\ pc = "send"
    /\ Raise("telegram")

\* asyncio.sleep(get_next_check_delay(short_term)), short_term being False
\* after a broadcast and True otherwise
ComputeDelay ==
    /\ pc = "delay"
    /\ \E d \in Days, t \in TimesOfDay :
          /\ now' = [day |-> d, sec |-> t.sec, us |-> t.us]
          /\ delay' = get_next_check_delay(~(new_rows > 0), now')
    /\ pc' = "sleep"
    /\ data' = <<>>
    /\ bi' = 0
    /\ sent' = <<>>
    /\ fetched' = <<>>
    /\ counts' = <<>>
    /\ inserted' = {}
    /\ UNCHANGED <<site, store, pending, attempt, error, page, urls, idx, chunk, row,
                   rowcount, new_rows>>
    /\ UNCHANGED <<tz, sheet, parsed, reply>>

\* The sleep ends: next pass of while True
Wake ==
    /\ pc = "sleep"
    /\ pc' = "cycle"
    /\ now' = NoTime
    /\ delay' = NoDelay
    /\ new_rows' = 0
    /\ UNCHANGED <<site, store, pending, attempt, error, page, urls, idx, chunk, row,
                   rowcount, data, bi, sent, fetched, counts, inserted>>
    /\ UNCHANGED <<tz, sheet, parsed, reply>>

----------------------------------------------------------------------------
(* command_rate: the /tasa handler of the dispatcher task.  The handler has *)
(* no await between reading its arguments and fetching the row, so the      *)
(* lookup is one step of the event loop; it runs on db_conn, the connection *)
(* update_timer writes on.                                                  *)

COVERAGE_START == 1                 \* datetime.datetime(2020, 3, 30), as a day number
QueryDays == 0 .. (MaxDate + 1)
\* A command: its arguments and the target_date they give.  Text that is no
\* date gives none, a date gives its midnight, no argument gives the clock.
Commands ==
    {[args |-> "invalid", target_date |-> NoTime]}
    \cup {[args |-> "date", target_date |-> [day |-> d, sec |-> 0, us |-> 0]] : d \in QueryDays}
    \cup {[args |-> "none", target_date |-> [day |-> d, sec |-> t.sec, us |-> t.us]] :
             d \in QueryDays, t \in TimesOfDay}

\* The rate_date get_sheet_rate gave for the worksheet of day d on a host
\* whose local zone is VE_TZ: midnight, aware
RateDate(d) == [day |-> d, sec |-> 0, us |-> 0, aware |-> TRUE]

\* try_parse_date gives a naive midnight, datetime.now() a naive local time
Naive(t) == [day |-> t.day, sec |-> t.sec, us |-> t.us, aware |-> FALSE]

\* adapt_datetime_iso: val.isoformat(), as the key that orders the text the
\* way SQLite compares it.  The date and HH:MM:SS have a fixed width; then
\* the text ends (naive, no microseconds), or goes on with "-04:00" (aware,
\* no microseconds) or with ".ffffff": end of text < "-" < ".".
adapt_datetime_iso(val) ==
    <<val.day, val.sec,
      IF val.us # 0 THEN 2 ELSE IF val.aware THEN 1 ELSE 0,
      val.us,
      IF val.aware THEN 1 ELSE 0>>

\* a <= b for two TEXT values
TextLessEq(a, b) ==
    \E k \in 1 .. (Len(a) + 1) :
        /\ \A j \in 1 .. (k - 1) : a[j] = b[j]
        /\ k <= Len(a) => a[k] < b[k]

\* WHERE effective_at <= ? ORDER BY effective_at DESC LIMIT 1, fetchone()
SelectAtOrBefore(tbl, target_date) ==
    LET rows == {r \in tbl : TextLessEq(adapt_datetime_iso(RateDate(r.effective_at)),
                                        adapt_datetime_iso(Naive(target_date)))}
    IN  IF rows = {} THEN <<>> ELSE <<OrderDesc(rows)[1]>>

\* The answer of command_rate
command_rate(args, target_date, tbl) ==
    IF args = "invalid"
    THEN [kind |-> "invalid_date", target |-> NoTime, rate |-> <<>>]
    ELSE IF target_date.day < COVERAGE_START
    THEN [kind |-> "no_rates", target |-> target_date, rate |-> <<>>]
    ELSE LET rate == SelectAtOrBefore(tbl, target_date)
         IN  [kind |-> IF rate = <<>> THEN "error" ELSE "rate",
              target |-> target_date, rate |-> rate]

\* Positions of update_timer at which the dispatcher is polling
Polling == {"cycle", "discover", "fetch", "executemany", "commit", "returned",
            "broadcast", "send", "delay", "sleep"}

\* A handler that commits db_conn after its query
CommandRateCommits ==
    /\ pc \in Polling
    /\ \E c \in Commands : reply' = command_rate(c.args, c.target_date, store \cup pending)
    /\ store' = store \cup pending
    /\ pending' = {}
    /\ UNCHANGED <<site, pc, attempt, error, page, urls, idx, chunk, row,
                   rowcount, new_rows, data, bi, sent, now, delay, fetched, counts, inserted,
                   tz, sheet, parsed>>

\* A user sends /tasa, with a date, with text that is no date, or with nothing
CommandRate ==
    /\ pc \in Polling
    /\ \E c \in Commands : reply' = command_rate(c.args, c.target_date, store \cup pending)
    /\ UNCHANGED <<site, store, pending, pc, attempt, error, page, urls, idx, chunk, row,
                   rowcount, new_rows, data, bi, sent, now, delay, fetched, counts, inserted,
                   tz, sheet, parsed>>

----------------------------------------------------------------------------

Next ==
    \/ PublishWorkbook
    \/ PublishWorksheet
    \/ MainConnectFail
    \/ RetryPause
    \/ MainStart
    \/ TaskGroupExit
    \/ Launch
    \/ StoreRatesBegin
    \/ DiscoverPage
    \/ DiscoverFail
    \/ FetchSheet
    \/ FetchFail
    \/ ExecuteRow
    \/ ParseFail
    \/ StoreFail
    \/ Commit
    \/ UpdateTimerBranch
    \/ BroadcastQuery
    \/ BroadcastSend
    \/ SendFail
    \/ ComputeDelay
    \/ Wake

Spec == Init /\ [][Next]_vars

----------------------------------------------------------------------------
(* broadcast_update on tables beyond the limit of 15: store_rates has just   *)
(* returned k for a cycle that left rows for days 1..n in the table.  The    *)
(* rows of the cycle are the newest one and k - 1 rows that end g days       *)
(* before it (g = 0: the k newest rows).                                     *)

TableUpTo(n) == {Rec(d, 1) : d \in 1 .. n}

CycleRows(n, k, g) ==
    IF k = 0 THEN {}
    ELSE {Rec(n, 1)} \cup {Rec(d, 1) : d \in (n - g - k + 1) .. (n - g - 1)}

BroadcastInit ==
    /\ site \in {<<Workbook(1, 1, v)>> : v \in Variants}
    /\ \E n \in 1 .. MaxStored, k \in 0 .. MaxStored, g \in 0 .. MaxStored :
          /\ k + g <= n
          /\ k = 0 => g = 0
          /\ store = TableUpTo(n)
          /\ inserted = CycleRows(n, k, g)
          /\ new_rows = k
    /\ pending = {}
    /\ pc = "returned"
    /\ attempt = 0
    /\ error = "none"
    /\ page = 0
    /\ urls = <<>>
    /\ idx = 0
    /\ chunk = <<>>
    /\ row = 0
    /\ rowcount = 0
    /\ data = <<>>
    /\ bi = 0
    /\ sent = <<>>
    /\ now = NoTime
    /\ delay = NoDelay
    /\ fetched = <<>>
    /\ counts = <<>>
    /\ tz = VE_OFFSET
    /\ sheet = NoSheet
    /\ parsed = NoRate
    /\ reply = NoReply

BroadcastNext ==
    \/ UpdateTimerBranch
    \/ BroadcastQuery
    \/ BroadcastSend
    \/ SendFail
    \/ TaskGroupExit

BroadcastSpec == BroadcastInit /\ [][BroadcastNext]_vars

----------------------------------------------------------------------------
(* One run of main() on a fresh data directory against a listing that does  *)
(* not change, with the dispatcher answering /tasa while update_timer runs  *)

ConcSites ==
    {<<Workbook(1, 1, v)>> : v \in Variants}
    \cup {<<Workbook(1, 2, v)>> : v \in Variants}
    \cup {<<Workbook(2, 2, v), Workbook(1, 1, w)>> : v \in Variants, w \in Variants}

ConcInit ==
    /\ site \in ConcSites
    /\ store = {}
    /\ pending = {}
    /\ pc = "main"
    /\ attempt = 1
    /\ error = "none"
    /\ page = 0
    /\ urls = <<>>
    /\ idx = 0
    /\ chunk = <<>>
    /\ row = 0
    /\ rowcount = 0
    /\ new_rows = 0
    /\ data = <<>>
    /\ bi = 0
    /\ sent = <<>>
    /\ now = NoTime
    /\ delay = NoDelay
    /\ fetched = <<>>
    /\ counts = <<>>
    /\ inserted = {}
    /\ tz = VE_OFFSET
    /\ sheet = NoSheet
    /\ parsed = NoRate
    /\ reply = NoReply

ConcNext ==
    \/ MainStart
    \/ StoreRatesBegin
    \/ DiscoverPage
    \/ DiscoverFail
    \/ FetchSheet
    \/ FetchFail
    \/ ExecuteRow
    \/ ParseFail
    \/ StoreFail
    \/ Commit
    \/ UpdateTimerBranch
    \/ BroadcastQuery
    \/ BroadcastSend
    \/ SendFail
    \/ ComputeDelay
    \/ Wake
    \/ TaskGroupExit
    \/ CommandRate

ConcSpec == ConcInit /\ [][ConcNext]_vars

----------------------------------------------------------------------------
(* One run of store_rates over a listing of two workbooks whose worksheets  *)
(* may repeat a date, within a workbook and from one workbook to the other, *)
(* on a table that may hold rows for these dates already                    *)

MaxBatch == 2       \* worksheets per workbook when store_rates is studied alone

BatchDates == {1, 2}
BatchRecs == {Rec(d, v) : d \in BatchDates, v \in Variants}
Batches == UNION {[1 .. k -> BatchRecs] : k \in 1 .. MaxBatch}
BatchTables ==
    {t \in SUBSET BatchRecs : \A r, q \in t : r.effective_at = q.effective_at => r = q}

BatchInit ==
    /\ site \in {<<a, b>> : a \in Batches, b \in Batches}
    /\ store \in BatchTables
    /\ pending = {}
    /\ pc = "cycle"
    /\ attempt = 0
    /\ error = "none"
    /\ page = 0
    /\ urls = <<>>
    /\ idx = 0
    /\ chunk = <<>>
    /\ row = 0
    /\ rowcount = 0
    /\ new_rows = 0
    /\ data = <<>>
    /\ bi = 0
    /\ sent = <<>>
    /\ now = NoTime
    /\ delay = NoDelay
    /\ fetched = <<>>
    /\ counts = <<>>
    /\ inserted = {}
    /\ tz = VE_OFFSET
    /\ sheet = NoSheet
    /\ parsed = NoRate
    /\ reply = NoReply

BatchNext ==
    \/ StoreRatesBegin
    \/ DiscoverPage
    \/ FetchSheet
    \/ ExecuteRow
    \/ Commit

BatchSpec == BatchInit /\ [][BatchNext]_vars

----------------------------------------------------------------------------
(* get_sheet_rate on the worksheets of a workbook, on a host whose local    *)
(* time zone is tz.  An aware datetime is the hour of its instant, counted  *)
(* from 00:00 UTC of day 0, with its UTC offset; a Decimal is a coefficient  *)
(* and a power of ten.                                                      *)

REDENOMINATION_DATE == 3            \* 2021-10-01 as a day number
REDENOMINATION_FACTOR == 1000000

HostOffsets == {-5, VE_OFFSET, 0}
RawValues ==
    {[coef |-> 4500000, exp |-> 0], [coef |-> 45, exp |-> -1],
     [coef |-> 361234, exp |-> -4], [coef |-> 1, exp |-> 0]}
Sheets == [date : 1 .. MaxDate, raw : RawValues]

\* datetime.strptime(..., "%d/%m/%Y"): naive midnight of the date in the cell
strptime(date) == [day |-> date, hour |-> 0]

\* naive.astimezone(zone): the naive value is taken as local time of the host
astimezone(naive, host, zone) ==
    [utc |-> naive.day * 24 + naive.hour - host, offset |-> zone]

\* datetime.datetime(2021, 10, 1, tzinfo=VE_TZ)
REDENOMINATION_DAY == [utc |-> REDENOMINATION_DATE * 24 - VE_OFFSET, offset |-> VE_OFFSET]

\* The power of ten that n is
RECURSIVE Log10(_)
Log10(n) == IF n < 10 THEN 0 ELSE 1 + Log10(n \div 10)

\* value /= REDENOMINATION_FACTOR, the factor being a power of ten
Divide(value, factor) == [coef |-> value.coef, exp |-> value.exp - Log10(factor)]

\* The calendar date an aware datetime shows
DateOf(dt) == (dt.utc + dt.offset) \div 24

get_sheet_rate(sh, host) ==
    LET rate_date == astimezone(strptime(sh.date), host, VE_OFFSET)
        value == sh.raw
    IN  [rate_date |-> rate_date,
         value |-> IF rate_date.utc < REDENOMINATION_DAY.utc
                   THEN Divide(value, REDENOMINATION_FACTOR)
                   ELSE value]

ParseInit ==
    /\ tz \in HostOffsets
    /\ sheet \in Sheets
    /\ parsed = NoRate
    /\ pc = "sheet"
    /\ site = <<>>
    /\ store = {}
    /\ pending = {}
    /\ attempt = 0
    /\ error = "none"
    /\ page = 0
    /\ urls = <<>>
    /\ idx = 0
    /\ chunk = <<>>
    /\ row = 0
    /\ rowcount = 0
    /\ new_rows = 0
    /\ data = <<>>
    /\ bi = 0
    /\ sent = <<>>
    /\ now = NoTime
    /\ delay = NoDelay
    /\ fetched = <<>>
    /\ counts = <<>>
    /\ inserted = {}
    /\ reply = NoReply

\* get_sheet_rate(sheet) returns
GetSheetRate ==
    /\ pc = "sheet"
    /\ parsed' = get_sheet_rate(sheet, tz)
    /\ pc' = "rate"
    /\ UNCHANGED <<site, store, pending, attempt, error, page, urls, idx, chunk, row,
                   rowcount, new_rows, data, bi, sent, now, delay, fetched, counts, inserted,
                   tz, sheet, reply>>

\* for sheet in book: the next worksheet
NextSheet ==
    /\ pc = "rate"
    /\ sheet' \in Sheets
    /\ parsed' = NoRate
    /\ pc' = "sheet"
    /\ UNCHANGED <<site, store, pending, attempt, error, page, urls, idx, chunk, row,
                   rowcount, new_rows, data, bi, sent, now, delay, fetched, counts, inserted,
                   tz, reply>>

ParseNext ==
    \/ GetSheetRate
    \/ NextSheet

ParseSpec == ParseInit /\ [][ParseNext]_vars

----------------------------------------------------------------------------
(* command_rate on any table: update_timer is at the top of its loop, the   *)
(* table holds rows for some of the days 1..MaxDate                         *)

QueryTables == SUBSET {Rec(d, 1) : d \in 1 .. MaxDate}

QueryInit ==
    /\ store \in QueryTables
    /\ site \in {<<Workbook(1, 1, 1)>>}
    /\ pending = {}
    /\ pc = "cycle"
    /\ attempt = 0
    /\ error = "none"
    /\ page = 0
    /\ urls = <<>>
    /\ idx = 0
    /\ chunk = <<>>
    /\ row = 0
    /\ rowcount = 0
    /\ new_rows = 0
    /\ data = <<>>
    /\ bi = 0
    /\ sent = <<>>
    /\ now = NoTime
    /\ delay = NoDelay
    /\ fetched = <<>>
    /\ counts = <<>>
    /\ inserted = {}
    /\ tz = VE_OFFSET
    /\ sheet = NoSheet
    /\ parsed = NoRate
    /\ reply = NoReply

QueryNext == CommandRate

QuerySpec == QueryInit /\ [][QueryNext]_vars

----------------------------------------------------------------------------
(* One run of store_rates on an empty table against listings of one to     *)
(* MaxDate workbooks, that is of one or more pages.  A request for a page   *)
(* ends: with the page, or with an error (aiohttp's ClientSession has a     *)
(* total timeout).                                                          *)

RECURSIVE Listings(_)
Listings(n) ==
    IF n = 0 THEN {<<>>}
    ELSE {<<Workbook(n, n, v)>> \o l : v \in Variants, l \in Listings(n - 1)}

ListingInit ==
    /\ site \in UNION {Listings(n) : n \in 1 .. MaxDate}
    /\ store = {}
    /\ pending = {}
    /\ pc = "cycle"
    /\ attempt = 0
    /\ error = "none"
    /\ page = 0
    /\ urls = <<>>
    /\ idx = 0
    /\ chunk = <<>>
    /\ row = 0
    /\ rowcount = 0
    /\ new_rows = 0
    /\ data = <<>>
    /\ bi = 0
    /\ sent = <<>>
    /\ now = NoTime
    /\ delay = NoDelay
    /\ fetched = <<>>
    /\ counts = <<>>
    /\ inserted = {}
    /\ tz = VE_OFFSET
    /\ sheet = NoSheet
    /\ parsed = NoRate
    /\ reply = NoReply

ListingNext ==
    \/ StoreRatesBegin
    \/ DiscoverPage
    \/ DiscoverFail
    \/ FetchSheet
    \/ ExecuteRow
    \/ Commit

ListingSpec ==
    ListingInit /\ [][ListingNext]_vars /\ WF_vars(DiscoverPage \/ DiscoverFail)

----------------------------------------------------------------------------
(* Properties *)

\* The workbook at position i of the listing has every one of its instants in the table
SheetKnown(i) == \A k \in 1 .. Len(site[i]) : site[i][k].effective_at \in Instants(store)

RECURSIVE Sum(_)
Sum(s) == IF s = <<>> THEN 0 ELSE s[1] + Sum(Tail(s))

\* C1: the table holds at most one value per effective_at instant, inside the
\* open transaction as well, and no step removes or changes a committed row:
\* an insert for an instant that is already present leaves its value as it was.
C1_OneValuePerInstant ==
    /\ [](\A r, q \in store \cup pending : r.effective_at = q.effective_at => r = q)
    /\ [][\A r \in store : r \in store']_vars

\* C1 witness: executemany has consumed a row whose instant is stored with
\* another value
C1_Witness ==
    /\ pc \in {"executemany", "commit"}
    /\ \E i \in 1 .. row : \E r \in store :
          /\ r.effective_at = chunk[i].effective_at
          /\ r.value # chunk[i].value

\* C2: within a cycle the workbooks are fetched one at a time in listing
\* order, workbook k+1 only after the batch of workbook k reported at least
\* one new row; store_rates returns at the first batch of zero rows or after
\* the last listed workbook, with the sum of the counts.
C2_EarlyStop ==
    /\ \A i \in 1 .. Len(fetched) : fetched[i] = i
    /\ Len(counts) <= Len(fetched)
    /\ Len(fetched) <= Len(counts) + 1
    /\ \A i \in 1 .. Len(counts) : i < Len(fetched) => counts[i] >= 1
    /\ pc = "returned" =>
          /\ Len(counts) = Len(fetched)
          /\ new_rows = Sum(counts)
          /\ Len(counts) > 0 => (counts[Len(counts)] = 0 \/ Len(fetched) = Len(urls))

\* C2 witness: three listed workbooks, the first gave 3 new rows, the second
\* none, the third was not fetched, and store_rates returned 3
C2_Witness ==
    /\ pc = "returned"
    /\ Len(urls) = 3
    /\ fetched = <<1, 2>>
    /\ counts = <<3, 0>>
    /\ new_rows = 3

\* C3: at the start of a cycle, a listed workbook that is fully in the table
\* implies that every workbook listed after it is fully in the table.
C3_KnownSheetImpliesOlderKnown ==
    pc = "cycle" =>
        \A i \in 1 .. Len(site) : \A j \in 1 .. Len(site) :
            (i < j /\ SheetKnown(i)) => SheetKnown(j)

\* C4: a cycle that fails with a transport, discovery, parse or store error
\* does not end the process: the process ends only when the start-up retries
\* are exhausted.
C4_ProcessEndsOnlyAtStartup ==
    pc = "exited" => (error = "telegram" /\ attempt = MAX_ATTEMPTS)

\* C5: a parse failure on one workbook aborts only that workbook: after it
\* store_rates is still running (the workbook counts as zero rows and the next
\* listed one is taken).
C5_ParseFailureSkipsSheet ==
    error = "parse" => pc \notin {"raised", "exited"}

\* What the code does on a parse failure: the exception leaves store_rates,
\* and from then on nothing is committed and no further workbook is fetched;
\* the rows of the failing workbook are not committed, those of the workbooks
\* committed before it stay.
ParseFailureAbortsRun ==
    /\ [](error = "parse" => pc \in {"raised", "exited"})
    /\ [][error' = "parse" => (store' = store /\ fetched' = fetched)]_vars

\* C6: the committed table changes only by the commit of a batch whose rows
\* were all executed, and then by all rows of the batch at once; rows left
\* uncommitted by a batch that failed do not survive it, so no later commit
\* can make them visible.
C6_BatchAtomicity ==
    /\ [][store' # store =>
            /\ pc = "commit"
            /\ store' = store \cup pending
            /\ \A k \in 1 .. Len(chunk) : chunk[k].effective_at \in Instants(store')]_vars
    /\ [](pc \notin {"executemany", "commit", "raised"} => pending = {})
    /\ [][(pc = "raised" /\ pending # {}) => (store' = store /\ pending' = {})]_vars

\* C6 witness: a write failed after earlier rows of the same workbook had been
\* inserted on the connection
C6_Witness ==
    /\ pc = "raised"
    /\ error = "store"
    /\ pending # {}
    /\ row < Len(chunk)

----------------------------------------------------------------------------
(* The scheduler *)

ShortDelay == [sec |-> SHORT_DELAY, us |-> 0]

\* The instant n + dl
Arrival(n, dl) ==
    LET u == n.us + dl.us
        s == n.sec + dl.sec + (u \div 1000000)
    IN  [day |-> n.day + (s \div 86400), sec |-> s % 86400, us |-> u % 1000000]

\* The first Monday-to-Friday day after day
FirstWeekdayAfter(day) ==
    CHOOSE d \in (day + 1) .. (day + 3) :
        /\ Weekday(d) < 5
        /\ \A e \in (day + 1) .. (d - 1) : Weekday(e) >= 5

\* now + delay reads 13:00:00 on the first weekday after today
SleepsUntilNextWeekdayCheck ==
    /\ Arrival(now, delay).day = FirstWeekdayAfter(now.day)
    /\ Arrival(now, delay).sec = CHECK_HOUR * 3600

\* C7: the delay is 900 seconds exactly when the cycle found no new row and
\* today is Monday to Friday; otherwise the sleep ends at 13:00 of the next
\* weekday.
C7_TransitionRule ==
    pc = "sleep" =>
        /\ (delay = ShortDelay) <=> (new_rows = 0 /\ Weekday(now.day) < 5)
        /\ delay # ShortDelay => SleepsUntilNextWeekdayCheck

\* C7 witness: a Friday cycle with one new row sleeps until Monday 13:00
C7_Witness ==
    /\ pc = "sleep"
    /\ Weekday(now.day) = 4
    /\ new_rows = 1
    /\ Arrival(now, delay) = [day |-> now.day + 3, sec |-> 46800, us |-> now.us]

\* C8 as claimed: when tomorrow is Saturday or Sunday the scheduler sleeps
\* until the next weekday at 13:00, whatever the cycle found.
C8_LongTermBeforeWeekend ==
    (pc = "sleep" /\ Weekday(now.day + 1) >= 5) =>
        (delay # ShortDelay /\ SleepsUntilNextWeekdayCheck)

\* C8 as amended: when tomorrow is Saturday or Sunday the scheduler sleeps
\* until Monday 13:00, except after a Friday cycle that found no new row,
\* which sleeps 15 minutes.
C8_LongTermBeforeWeekendUnlessFridayEmpty ==
    (pc = "sleep" /\ Weekday(now.day + 1) >= 5) =>
        IF Weekday(now.day) = 4 /\ new_rows = 0
        THEN delay = ShortDelay
        ELSE /\ delay # ShortDelay
             /\ SleepsUntilNextWeekdayCheck
             /\ Weekday(Arrival(now, delay).day) = 0

\* C8 witness: a Saturday cycle that found nothing sleeps until Monday
C8_Witness ==
    /\ pc = "sleep"
    /\ Weekday(now.day) = 5
    /\ new_rows = 0
    /\ Arrival(now, delay).day = now.day + 2

----------------------------------------------------------------------------
(* The broadcast *)

\* The n rows of tbl with the greatest effective_at
TopSet(tbl, n) ==
    {r \in tbl : Cardinality({q \in tbl : q.effective_at > r.effective_at}) < n}

SentRow(i) == [effective_at |-> sent[i].effective_at, value |-> sent[i].value]

SentRows == {SentRow(i) : i \in 1 .. Len(sent)}

\* Every row of the cycle is newer than every row stored before it
InsertedAreNewest ==
    \A r \in inserted : \A q \in store \ inserted : q.effective_at < r.effective_at

\* C9 as claimed: after a cycle that inserted N >= 1 rows the broadcast holds
\* one message for each row of the cycle and for no other row.
C9_BroadcastIsInsertedRows ==
    (pc = "delay" /\ new_rows >= 1) =>
        (SentRows = inserted /\ Len(sent) = Cardinality(inserted))

\* C9 as amended: after a cycle that inserted N >= 1 rows the broadcast holds
\* one message for each of the min(N, 15) newest rows of the table; these are
\* the rows of the cycle exactly when N <= 15 and every row of the cycle is
\* newer than every row stored before it.
C9_BroadcastIsNewestRows ==
    (pc = "delay" /\ new_rows >= 1) =>
        /\ Len(sent) = Cardinality(SentRows)
        /\ SentRows = TopSet(store, Min(new_rows, 15))
        /\ (SentRows = inserted) <=> (new_rows <= 15 /\ InsertedAreNewest)

\* C9 witness: a finished broadcast of exactly the rows of a cycle, on a table
\* that held rows before
C9_Witness ==
    /\ pc = "delay"
    /\ new_rows >= 2
    /\ store # inserted
    /\ SentRows = inserted
    /\ Len(sent) = new_rows

\* C10: the messages are the min(count, 15) rows with the greatest
\* effective_at of the table, oldest first, one message per row: at any point
\* the i-th message is the i-th oldest of these rows, a finished broadcast
\* holds all of them, and a cycle with zero new rows sends nothing.
C10_NewestRowsOldestFirst ==
    LET top == TopSet(store, Min(new_rows, 15))
    IN  /\ Len(sent) <= Min(new_rows, 15)
        /\ \A i \in 1 .. Len(sent) :
              /\ SentRow(i) \in top
              /\ Cardinality({q \in top : q.effective_at < sent[i].effective_at}) = i - 1
        /\ pc = "delay" => Len(sent) = Cardinality(top)

\* C10 witness: a cycle with 16 new rows ended in 15 messages
C10_Witness ==
    /\ pc = "delay"
    /\ new_rows = 16
    /\ Len(sent) = 15
    /\ sent[1].effective_at < sent[15].effective_at

\* C11: update_timer is one task and its cycles do not overlap.  An ingest
\* begins only at the top of the loop, and then nothing of an earlier cycle
\* is still in progress (no open transaction, no batch, no broadcast, no
\* sleep); the top of the loop is reached only from main() or from a sleep
\* that ended; the sleep starts only after the delay was computed, which
\* happens only after store_rates returned zero or after the broadcast sent
\* its last message; the broadcast starts only after store_rates returned a
\* positive count.  A /tasa answered in between moves none of this.
C11_CyclesDoNotOverlap ==
    /\ [][(pc' = "discover" /\ pc # "discover") =>
             /\ pc = "cycle"
             /\ pending = {} /\ chunk = <<>> /\ data = <<>> /\ delay = NoDelay]_vars
    /\ [][(pc' = "cycle" /\ pc # "cycle") => pc \in {"main", "sleep"}]_vars
    /\ [][(pc' = "sleep" /\ pc # "sleep") => pc = "delay"]_vars
    /\ [][(pc' = "delay" /\ pc # "delay") =>
             \/ pc = "returned" /\ new_rows = 0
             \/ pc = "broadcast" /\ data' = <<>>
             \/ pc = "send" /\ Len(sent') = Len(data)]_vars
    /\ [][(pc' = "broadcast" /\ pc # "broadcast") => (pc = "returned" /\ new_rows > 0)]_vars
    /\ [][reply' # reply =>
             UNCHANGED <<pc, store, pending, page, urls, idx, chunk, row, rowcount,
                         new_rows, data, bi, sent, now, delay>>]_vars

\* C11 witness: a later cycle's ingest has begun, after a cycle that stored
\* rows, broadcast them and slept, and after a /tasa was answered with a rate
C11_Witness ==
    /\ pc = "discover"
    /\ store # {}
    /\ reply.kind = "rate"

\* The second listed workbook holds the record set of the first, and
\* store_rates has gone on to it after the first batch was committed
SecondBatchRepeatsFirst ==
    /\ Len(site) = 2
    /\ SeqRange(site[1]) = SeqRange(site[2])
    /\ Len(fetched) = 2

\* C12: inserting the same record set a second time inserts nothing.  After
\* the first batch every distinct effective_at of the set is in the table
\* exactly once; while and after the second batch runs no row is pending, the
\* table does not change, and the batch reports 0 new rows.
C12_BatchInsertIdempotent ==
    /\ [](SecondBatchRepeatsFirst =>
             /\ \A t \in Instants(SeqRange(site[1])) :
                   Cardinality({r \in store : r.effective_at = t}) = 1
             /\ pending = {}
             /\ rowcount = 0
             /\ Len(counts) = 2 => counts[2] = 0)
    /\ [][SecondBatchRepeatsFirst => store' = store]_vars

\* C12 witness: the same two-row set was committed twice, the first time
\* with two new rows
C12_Witness ==
    /\ SecondBatchRepeatsFirst
    /\ pc = "returned"
    /\ counts = <<2, 0>>

\* The instants that batch i brings and that neither the table at the start
\* of the run nor an earlier batch of the run held
NewInstants(i) ==
    Instants(SeqRange(site[i]))
        \ (Instants(store \ inserted) \cup UNION {Instants(SeqRange(site[j])) : j \in 1 .. (i - 1)})

\* C13: the value store_rates returns is the number of effective_at instants
\* that are in the table after the run and were not before it; it is the sum,
\* over the batches processed up to and including the one that stopped the
\* run, of the instants each batch newly brought.  Rows whose instant was
\* present, or occurred earlier in the same batch, are not counted.
C13_ReturnsNewInstants ==
    /\ \A i \in 1 .. Len(counts) : counts[i] = Cardinality(NewInstants(i))
    /\ pc = "returned" =>
          /\ new_rows = Cardinality(Instants(store) \ Instants(store \ inserted))
          /\ new_rows = Sum([i \in 1 .. Len(counts) |-> Cardinality(NewInstants(i))])

\* C13 witness: the first workbook repeats one instant with two values and
\* counted once, the second brought one stored and one new instant, and
\* store_rates returned 2
C13_Witness ==
    /\ pc = "returned"
    /\ Len(site[1]) = 2
    /\ site[1][1].effective_at = site[1][2].effective_at
    /\ site[1][1] # site[1][2]
    /\ Len(site[2]) = 2
    /\ counts = <<1, 1>>
    /\ new_rows = 2

\* C14: the value get_sheet_rate returns is the cell's value divided by
\* 1,000,000 when the date in the sheet is before 2021-10-01 and the cell's
\* value itself otherwise, whatever the host.
C14_RedenominationByDate ==
    pc = "rate" =>
        parsed.value = IF sheet.date < REDENOMINATION_DATE
                       THEN Divide(sheet.raw, REDENOMINATION_FACTOR)
                       ELSE sheet.raw

\* What get_sheet_rate does: the rule of C14 on a host whose local zone is
\* UTC-4 or west of it; east of it, the sheets dated 2021-10-01 are divided
\* too, and the rate_date shows the day before the date in the sheet.
RedenominationByHostMidnight ==
    pc = "rate" =>
        /\ tz <= VE_OFFSET => C14_RedenominationByDate
        /\ tz > VE_OFFSET =>
              /\ DateOf(parsed.rate_date) = sheet.date - 1
              /\ parsed.value = IF sheet.date <= REDENOMINATION_DATE
                                THEN Divide(sheet.raw, REDENOMINATION_FACTOR)
                                ELSE sheet.raw

\* The newest of a set of rows, as a result of fetchone(): empty for no row
Newest(rows) ==
    IF rows = {} THEN <<>>
    ELSE <<CHOOSE r \in rows : \A q \in rows : q.effective_at <= r.effective_at>>

\* C15: the rate command answers with the stored record of the greatest
\* effective_at that is not after the queried instant, the record of the
\* queried date itself included, and with no record when there is none or
\* the instant is before the start of coverage.
C15_LatestAtOrBefore ==
    reply.kind \in {"rate", "error", "no_rates"} =>
        reply.rate = IF reply.target.day < COVERAGE_START
                     THEN <<>>
                     ELSE Newest({r \in store : r.effective_at <= reply.target.day})

\* What command_rate does: a record counts as not after the target when its
\* date is before the target's date, or is the target's date and the target
\* is not midnight; /tasa with a date asks for midnight of that date.
LookupLeavesOutMidnightOfTheDate ==
    reply.kind \in {"rate", "error", "no_rates"} =>
        reply.rate = IF reply.target.day < COVERAGE_START
                     THEN <<>>
                     ELSE Newest({r \in store :
                                    \/ r.effective_at < reply.target.day
                                    \/ /\ r.effective_at = reply.target.day
                                       /\ reply.target.sec + reply.target.us > 0})

\* C16: main() is attempted at most 10 times.  A failure of attempt n < 10
\* with TelegramNetworkError is followed by a pause of 10 seconds and then by
\* attempt n + 1; the failure of attempt 10 ends the process with that error;
\* and an attempt other than the first starts only out of that pause, which
\* is entered only by such a failure.
C16_StartupRetries ==
    /\ [](attempt \in 0 .. MAX_ATTEMPTS)
    /\ [](pc = "pause" => (attempt < MAX_ATTEMPTS /\ delay = [sec |-> RETRY_PAUSE, us |-> 0]))
    /\ [][(pc = "pause" /\ pc' # "pause") => (pc' = "main" /\ attempt' = attempt + 1)]_vars
    /\ [][(pc' = "pause" /\ pc # "pause") => (pc = "main" /\ attempt' = attempt)]_vars
    /\ [][(pc' = "main" /\ attempt' > 1) => (pc \in {"pause", "main"})]_vars
    /\ [][(pc = "main" /\ pc' = "exited") => (attempt = MAX_ATTEMPTS /\ error' = "telegram")]_vars
    /\ [][(pc = "main" /\ attempt = MAX_ATTEMPTS) => pc' \in {"main", "exited", "cycle"}]_vars

\* C16 witness: the tenth attempt failed and the process ended
C16_Witness ==
    /\ pc = "exited"
    /\ attempt = MAX_ATTEMPTS
    /\ error = "telegram"

\* get_next_check_delay did not return the 15 minutes: it was called after a
\* broadcast, or on a Saturday or Sunday
LongTerm == new_rows > 0 \/ Weekday(now.day) >= 5

\* C17: in long-term mode, on every day of the week and at every time of
\* day, the sleep ends on a Monday-to-Friday day, on the first such day after
\* today, when the clock reads 13:00:00, and the delay is greater than zero.
C17_LongTermNextCheck ==
    (pc = "sleep" /\ LongTerm) =>
        LET next_check == Arrival(now, delay)
        IN  /\ Weekday(next_check.day) < 5
            /\ next_check.day > now.day
            /\ \A d \in (now.day + 1) .. (next_check.day - 1) : Weekday(d) >= 5
            /\ next_check.sec = CHECK_HOUR * 3600
            /\ delay.sec > 0
            /\ delay.us >= 0

\* C17 witness: the shortest long-term sleep, from Sunday 23:59:59.999999 to
\* Monday 13:00
C17_Witness ==
    /\ pc = "sleep"
    /\ Weekday(now.day) = 6
    /\ now.sec = 86399
    /\ delay = [sec |-> CHECK_HOUR * 3600 + 1, us |-> 0]

\* C18: the change of every broadcast record is its value minus the value of
\* the record with the next smaller effective_at in the whole table, whether
\* or not that record is broadcast too, and is the record's own value when
\* the table holds no earlier record.
C18_ChangeFromPreviousRecord ==
    /\ \A i \in 1 .. Len(data) :
          data[i].change_null <=> (\A q \in store : q.effective_at >= data[i].effective_at)
    /\ \A i \in 1 .. Len(sent) :
          LET earlier == {q \in store : q.effective_at < sent[i].effective_at}
          IN  sent[i].change = IF earlier = {}
                               THEN sent[i].value
                               ELSE sent[i].value - Newest(earlier)[1].value

\* C18 witness: a table of three rows, all broadcast: the first message
\* carries its own value, the second a rise, the third a fall
C18_Witness ==
    /\ pc = "delay"
    /\ Cardinality(store) = 3
    /\ Len(sent) = 3
    /\ sent[1].change = sent[1].value
    /\ sent[2].change > 0
    /\ sent[3].change < 0

\* The number of pages of the listing
NumPages == IF site = <<>> THEN 1 ELSE (Len(site) + PageSize - 1) \div PageSize

\* The file links of the whole listing, in listing order
AllLinks == [i \in 1 .. Len(site) |-> i]

\* C19: get_sheet_urls walks the pages from the first one along the "next"
\* controls: while it runs it has the links of the pages before the current
\* one, in order, and no workbook has been fetched; each pass moves to the
\* next page, and the pass on the last page, the first one without a "next"
\* control, returns the links of all pages visited; workbooks are fetched
\* only after that; and the walk ends.
C19_DiscoveryWalksTheChain ==
    /\ [](pc = "discover" =>
             /\ page \in 1 .. NumPages
             /\ urls = [i \in 1 .. ((page - 1) * PageSize) |-> i]
             /\ fetched = <<>>)
    /\ [][pc = "discover" =>
             \/ pc' = "discover" /\ page < NumPages /\ page' = page + 1
             \/ pc' \in {"fetch", "returned"} /\ page = NumPages /\ urls' = AllLinks
             \/ pc' = "raised"]_vars
    /\ [][Len(fetched') > Len(fetched) => (pc = "fetch" /\ urls = AllLinks)]_vars
    /\ (pc = "discover") ~> (pc # "discover")

\* C19 witness: a listing of more than one page was walked to its end and
\* the first workbook has then been fetched
C19_Witness ==
    /\ Len(site) > PageSize
    /\ urls = AllLinks
    /\ Len(fetched) = 1

\* C20: the table changes only in the step that commits a batch of
\* store_rates, which adds the rows of the batch; a step of the rate command,
\* the broadcast query and the computation of the delay leave the table and
\* the open transaction as they are; and a row of the table is in the table,
\* with its value, after every step.
C20_SingleWriterAppendOnly ==
    /\ [][store' # store =>
             /\ pc = "commit"
             /\ pc' \in {"fetch", "returned"}
             /\ store' = store \cup pending]_vars
    /\ [][(reply' # reply \/ pc \in {"broadcast", "delay"}) =>
             (store' = store /\ pending' = pending)]_vars
    /\ [][\A r \in store : r \in store']_vars

\* C20 witness: rows were committed and broadcast, the delay was computed
\* and a /tasa was answered with one of the rows
C20_Witness ==
    /\ pc = "sleep"
    /\ new_rows > 0
    /\ reply.kind = "rate"
    /\ reply.rate[1] \in store

====
